---- MODULE Spec2Model ----
(***************************************************************************)
(* Model of board_script.py: a sequential pipeline that locates kicad-cli, *)
(* resolves the project's schematic and board files, creates the output    *)
(* directories and runs the export stages through run().                   *)
(*                                                                         *)
(* A file name is the sequence of its dot-separated components:            *)
(*   "board.kicad_pro" is <<"board", "kicad_pro">>.                        *)
(* The clock counts ticks of half a minute; timestamp_tag() has minute     *)
(* resolution.                                                             *)
(***************************************************************************)
EXTENDS Integers, Sequences, FiniteSets, TLC

VARIABLES args, env, clock, pc, idx, kicad, probes, proj, fs, prod_root,
          folderClock, startClock, log, zip_path, kikitProbed,
          exitCode, error, completed, runNo, history

vars == <<args, env, clock, pc, idx, kicad, probes, proj, fs, prod_root,
          folderClock, startClock, log, zip_path, kikitProbed,
          exitCode, error, completed, runNo, history>>

\* ---------------------------------------------------------------- bounds
MaxClock == 3
MaxRuns == 2

\* ------------------------------------------------------------- constants
TicksPerMinute == 2
UsageExit == 2

RetCodes == {0, 1, 3}

NoName == <<>>
NoCode == -1
NoClock == -1

\* ------------------------------------------------- pathlib on file names
Front(n) == SubSeq(n, 1, Len(n) - 1)

Last(n) == n[Len(n)]

\* PurePath.suffix: name[i:] for the last dot i with 0 < i < len(name) - 1
HasSuffix(n) == /\ Len(n) > 1
                /\ Last(n) # ""
                /\ Front(n) # <<"">>

Suffix(n) == IF HasSuffix(n) THEN Last(n) ELSE ""

Stem(n) == IF HasSuffix(n) THEN Front(n) ELSE n

WithSuffix(n, s) ==
    LET base == IF HasSuffix(n) THEN Front(n) ELSE n
    IN  IF s = "" THEN base ELSE Append(base, s)

Lower(s) == CASE s = "KICAD_PRO" -> "kicad_pro"
              [] s = "Kicad_Pro" -> "kicad_pro"
              [] s = "BAK" -> "bak"
              [] OTHER -> s

\* ----------------------------------------------------------- helpers
timestamp_tag(t) == t \div TicksPerMinute

NoError == [kind |-> "", path |-> NoName, code |-> NoCode]

Err(k, p, c) == [kind |-> k, path |-> p, code |-> c]

Dir(top, ts, p, sub) == [top |-> top, ts |-> ts, proj |-> p, sub |-> sub]

NoDir == Dir("", NoClock, NoName, "")

NoZip == [dir |-> NoDir, base |-> NoName, ts |-> NoClock]

\* which_kicad_cli: the places looked at, in order
KicadProbesFallbackFirst(onPath, atFallback) ==
    IF atFallback THEN <<"fallback">> ELSE <<"fallback", "PATH">>

KicadProbes(onPath, atFallback) ==
    IF onPath THEN <<"PATH">> ELSE <<"PATH", "fallback">>

which_kicad_cli(onPath, atFallback) ==
    LET p == KicadProbes(onPath, atFallback)
        hit(loc) == IF loc = "PATH" THEN onPath ELSE atFallback
    IN  [probes |-> p,
         exe |-> IF hit(p[Len(p)]) THEN p[Len(p)] ELSE ""]

\* project_paths: (proj_stem, sch_path, pcb_path) or the error raised
ProjectStem(project_file) ==
    IF Lower(Suffix(project_file)) = "kicad_pro"
    THEN WithSuffix(project_file, "")
    ELSE project_file

CheckOrderBoardFirst == <<"pcb", "sch">>

CheckOrder == <<"sch", "pcb">>

project_paths(project_file, files) ==
    LET stem == ProjectStem(project_file)
        sch == WithSuffix(stem, "kicad_sch")
        pcb == WithSuffix(stem, "kicad_pcb")
        path(w) == IF w = "sch" THEN sch ELSE pcb
        kind(w) == IF w = "sch" THEN "Schematic not found" ELSE "Board not found"
        missing == SelectSeq(CheckOrder, LAMBDA w : path(w) \notin files)
    IN  IF missing # <<>>
        THEN [ok |-> FALSE, stem |-> NoName, sch |-> NoName, pcb |-> NoName,
              err |-> Err(kind(missing[1]), path(missing[1]), NoCode)]
        ELSE [ok |-> TRUE, stem |-> stem, sch |-> sch, pcb |-> pcb,
              err |-> NoError]

NoProj == [ok |-> FALSE, stem |-> NoName, sch |-> NoName, pcb |-> NoName,
           err |-> NoError]

\* run(): a non-zero return code raises RuntimeError
RunIgnoresFailure(rc) == FALSE

RunRaises(rc) == rc # 0

\* the top-level handler: sys.exit(1) for any Exception
HandlerExitPassesCode(e) == IF e.code # NoCode THEN e.code ELSE 1

HandlerExit(e) == 1

Truthy(s) == s # "None" /\ s # ""
\* ------------------------------------------------------ the export stages
Export3dCmds(make_glb) ==
    <<"step">> \o (IF make_glb THEN <<"glb">> ELSE <<>>)

PicturesCmdsIsoAlways(iso) ==
    <<"top", "bottom", "side", "iso">>

PicturesCmds(iso) ==
    <<"top", "bottom", "side">> \o (IF iso THEN <<"iso">> ELSE <<>>)

DocsCmdsAlwaysDrc(include_drc) ==
    <<"schematic_pdf", "erc", "board_prints", "drc">>

DocsCmds(include_drc) ==
    <<"schematic_pdf", "erc", "board_prints">>
        \o (IF include_drc THEN <<"drc">> ELSE <<>>)

FabCmds == <<"gerbers", "drill", "pos", "bom">>

\* the stem an output name is built from: sch_path.stem or pcb_path.stem
OutBase(cmd, sch, pcb) ==
    CASE cmd \in {"schematic_pdf", "erc", "bom"} -> Stem(sch)
      [] cmd \in {"gerbers", "drill", "kikit"} -> NoName
      [] OTHER -> Stem(pcb)

Invocation(stage, cmd, rc) ==
    [stage |-> stage, cmd |-> cmd,
     base |-> OutBase(cmd, proj.sch, proj.pcb), rc |-> rc]

StdDir(top) == Dir(top, NoClock, NoName, "")

\* main(): the order of the calls after parse_args
MainOrderEagerDirs ==
    <<"which_kicad_cli", "ensure_dirs", "project_paths", "export_3d",
      "export_pictures", "export_docs", "export_fab", "run_kikit_fab">>

MainOrderPicturesFirst ==
    <<"which_kicad_cli", "project_paths", "ensure_dirs", "export_pictures",
      "export_3d", "export_docs", "export_fab", "run_kikit_fab">>

MainOrder ==
    <<"which_kicad_cli", "project_paths", "ensure_dirs", "export_3d",
      "export_pictures", "export_docs", "export_fab", "run_kikit_fab">>

IndexOf(s) == CHOOSE i \in 1..Len(MainOrder) : MainOrder[i] = s

StageAfter(s) ==
    IF IndexOf(s) = Len(MainOrder) THEN "done" ELSE MainOrder[IndexOf(s) + 1]

Advance(s) ==
    /\ pc' = StageAfter(s)
    /\ idx' = 0
    /\ exitCode' = IF StageAfter(s) = "done" THEN 0 ELSE exitCode
    /\ error' = error
    /\ completed' = Append(completed, s)

Raise(e) ==
    /\ pc' = "done"
    /\ idx' = 0
    /\ exitCode' = HandlerExit(e)
    /\ error' = e
    /\ completed' = completed

\* --------------------------------------------------------------- inputs
ProjectInputs ==
    { <<"board", "kicad_pro">>, <<"board">>, <<"board", "KICAD_PRO">>,
      <<"board", "bak">> }

ProjectFiles == { <<"board", "kicad_sch">>, <<"board", "kicad_pcb">> }

Vendors == {"None", "", "jlcpcb"}

DefaultArgs(a) ==
    [argv |-> a, project |-> <<"board">>, iso |-> FALSE, glb |-> FALSE,
     zip |-> FALSE, skip_drc |-> FALSE, kikit |-> "None"]

ArgSets ==
    [argv : {"ok"}, project : ProjectInputs, iso : BOOLEAN, glb : BOOLEAN,
     zip : BOOLEAN, skip_drc : BOOLEAN, kikit : Vendors]
        \cup {DefaultArgs("usage"), DefaultArgs("help")}

EnvSets ==
    [onPath : BOOLEAN, atFallback : BOOLEAN, kikitOnPath : BOOLEAN,
     files : SUBSET ProjectFiles]

FreshRun ==
    /\ pc = "parse_args"
    /\ idx = 0
    /\ kicad = ""
    /\ probes = <<>>
    /\ proj = NoProj
    /\ prod_root = NoDir
    /\ folderClock = NoClock
    /\ startClock = NoClock
    /\ log = <<>>
    /\ zip_path = NoZip
    /\ kikitProbed = FALSE
    /\ exitCode = NoCode
    /\ error = NoError
    /\ completed = <<>>

Init ==
    /\ args \in ArgSets
    /\ env \in EnvSets
    /\ clock = 0
    /\ fs = {}
    /\ runNo = 1
    /\ history = <<>>
    /\ FreshRun

\* -------------------------------------------------------------- actions
Tick ==
    /\ pc # "done"
    /\ clock < MaxClock
    /\ clock' = clock + 1
    /\ UNCHANGED <<args, env, pc, idx, kicad, probes, proj, fs, prod_root,
                   folderClock, startClock, log, zip_path, kikitProbed,
                   exitCode, error, completed, runNo, history>>

\* parser.parse_args(): SystemExit is not an Exception, the handler of
\* __main__ does not see it
ParseArgs ==
    /\ pc = "parse_args"
    /\ startClock' = clock
    /\ CASE args.argv = "usage" ->
              pc' = "done" /\ exitCode' = UsageExit
         [] args.argv = "help" ->
              pc' = "done" /\ exitCode' = 0
         [] OTHER ->
              pc' = MainOrder[1] /\ exitCode' = exitCode
    /\ UNCHANGED <<args, env, clock, idx, kicad, probes, proj, fs, prod_root,
                   folderClock, log, zip_path, kikitProbed, error, completed,
                   runNo, history>>

WhichKicadCli ==
    /\ pc = "which_kicad_cli"
    /\ LET r == which_kicad_cli(env.onPath, env.atFallback)
       IN  /\ probes' = r.probes
           /\ kicad' = r.exe
           /\ IF r.exe = ""
              THEN Raise(Err("kicad-cli not found", NoName, NoCode))
              ELSE Advance("which_kicad_cli")
    /\ UNCHANGED <<args, env, clock, proj, fs, prod_root, folderClock,
                   startClock, log, zip_path, kikitProbed, runNo, history>>

ProjectPaths ==
    /\ pc = "project_paths"
    /\ LET r == project_paths(args.project, env.files)
       IN  /\ proj' = r
           /\ IF r.ok THEN Advance("project_paths") ELSE Raise(r.err)
    /\ UNCHANGED <<args, env, clock, kicad, probes, fs, prod_root,
                   folderClock, startClock, log, zip_path, kikitProbed,
                   runNo, history>>
\* main(), lines 205-211: the four output directories, in order; mkdir of a
\* directory that is not there yet may fail (OSError)
MainDirsNoTimestamp(ts, stem) ==
    <<StdDir("3D_MODEL"), StdDir("PICTURES"), StdDir("DOCUMENTATION"),
      Dir("PRODUCTION", NoClock, stem, "")>>

MainDirs(ts, stem) ==
    <<StdDir("3D_MODEL"), StdDir("PICTURES"), StdDir("DOCUMENTATION"),
      Dir("PRODUCTION", ts, stem, "")>>

EnsureDirs ==
    /\ pc = "ensure_dirs"
    /\ LET ds == MainDirs(timestamp_tag(clock), proj.stem)
       IN  \E n \in 0..Len(ds) :
             /\ n < Len(ds) => ds[n + 1] \notin fs
             /\ fs' = fs \cup {ds[i] : i \in 1..n}
             /\ IF n = Len(ds)
                THEN /\ prod_root' = ds[Len(ds)]
                     /\ folderClock' = clock
                     /\ Advance("ensure_dirs")
                ELSE /\ prod_root' = prod_root
                     /\ folderClock' = folderClock
                     /\ Raise(Err("mkdir failed", NoName, NoCode))
    /\ UNCHANGED <<args, env, clock, kicad, probes, proj, startClock, log,
                   zip_path, kikitProbed, runNo, history>>

\* one step of an export stage: ensure_dir of the stage's directories on
\* entry, then the next run() of the stage
StageStep(stage, cmds, dirs, more) ==
    /\ pc = stage
    /\ idx < Len(cmds)
    /\ \/ /\ idx = 0
          /\ ~(dirs \subseteq fs)
          /\ Raise(Err("mkdir failed", NoName, NoCode))
          /\ UNCHANGED <<fs, log>>
       \/ \E rc \in RetCodes :
            /\ fs' = IF idx = 0 THEN fs \cup dirs ELSE fs
            /\ log' = Append(log, Invocation(stage, cmds[idx + 1], rc))
            /\ IF RunRaises(rc)
               THEN Raise(Err("Command failed", NoName, rc))
               ELSE IF idx + 1 = Len(cmds) /\ ~more
                    THEN Advance(stage)
                    ELSE /\ pc' = pc
                         /\ idx' = idx + 1
                         /\ UNCHANGED <<exitCode, error, completed>>
    /\ UNCHANGED <<args, env, clock, kicad, probes, proj, prod_root,
                   folderClock, startClock, zip_path, kikitProbed, runNo,
                   history>>

Export3d ==
    StageStep("export_3d", Export3dCmds(args.glb), {StdDir("3D_MODEL")}, FALSE)

ExportPictures ==
    StageStep("export_pictures", PicturesCmds(args.iso),
              {StdDir("PICTURES")}, FALSE)

ExportDocs ==
    StageStep("export_docs", DocsCmds(~args.skip_drc),
              {StdDir("DOCUMENTATION")}, FALSE)

SubDir(d, sub) == Dir(d.top, d.ts, d.proj, sub)

ExportFab ==
    StageStep("export_fab", FabCmds,
              {prod_root, SubDir(prod_root, "gerbers"),
               SubDir(prod_root, "drill")}, args.zip)

\* export_fab, lines 169-172: the zip is named after a second reading of
\* the clock; writing the archive may fail (OSError)
ZipName(root, pcb, t) ==
    [dir |-> root, base |-> Stem(pcb), ts |-> timestamp_tag(t)]

ZipGerbers ==
    /\ pc = "export_fab"
    /\ idx = Len(FabCmds)
    /\ args.zip
    /\ \/ /\ zip_path' = ZipName(prod_root, proj.pcb, clock)
          /\ Advance("export_fab")
       \/ /\ zip_path' = zip_path
          /\ Raise(Err("zip failed", NoName, NoCode))
    /\ UNCHANGED <<args, env, clock, kicad, probes, proj, fs, prod_root,
                   folderClock, startClock, log, kikitProbed, runNo, history>>

\* main(), lines 231-234, with run_kikit_fab
RunKikitFab ==
    /\ pc = "run_kikit_fab"
    /\ IF ~Truthy(args.kikit)
       THEN /\ Advance("run_kikit_fab")
            /\ UNCHANGED <<kikitProbed, log, fs>>
       ELSE /\ kikitProbed' = TRUE
            /\ IF ~env.kikitOnPath
               THEN /\ Raise(Err("KiKit not found", NoName, NoCode))
                    /\ UNCHANGED <<log, fs>>
               ELSE \E rc \in RetCodes :
                      /\ fs' = fs \cup {prod_root}
                      /\ log' = Append(log, Invocation("run_kikit_fab", "kikit", rc))
                      /\ IF RunRaises(rc)
                         THEN Raise(Err("Command failed", NoName, rc))
                         ELSE Advance("run_kikit_fab")
    /\ UNCHANGED <<args, env, clock, kicad, probes, proj, prod_root,
                   folderClock, startClock, zip_path, runNo, history>>

\* the same command line is run again after the previous run has ended
RunRecord ==
    [start |-> startClock, folderClock |-> folderClock,
     prod_root |-> prod_root, zip_path |-> zip_path, exitCode |-> exitCode]

Rerun ==
    /\ pc = "done"
    /\ runNo < MaxRuns
    /\ runNo' = runNo + 1
    /\ history' = Append(history, RunRecord)
    /\ pc' = "parse_args"
    /\ idx' = 0
    /\ kicad' = ""
    /\ probes' = <<>>
    /\ proj' = NoProj
    /\ prod_root' = NoDir
    /\ folderClock' = NoClock
    /\ startClock' = NoClock
    /\ log' = <<>>
    /\ zip_path' = NoZip
    /\ kikitProbed' = FALSE
    /\ exitCode' = NoCode
    /\ error' = NoError
    /\ completed' = <<>>
    /\ UNCHANGED <<args, env, clock, fs>>

Next ==
    \/ Tick
    \/ ParseArgs
    \/ WhichKicadCli
    \/ ProjectPaths
    \/ EnsureDirs
    \/ Export3d
    \/ ExportPictures
    \/ ExportDocs
    \/ ExportFab
    \/ ZipGerbers
    \/ RunKikitFab

Spec == Init /\ [][Next]_vars

\* two runs of one command line with --zip, one after the other
InitRerun ==
    /\ Init
    /\ args.argv = "ok"
    /\ args.zip
    /\ ~args.iso /\ ~args.glb /\ args.skip_drc
    /\ args.kikit = "None"
    /\ env.onPath /\ env.kikitOnPath

NextRerun == Next \/ Rerun

SpecRerun == InitRerun /\ [][NextRerun]_vars
\* ------------------------------------------------------------ properties
Failed(i) == log[i].rc # 0

CmdsOf(stage) ==
    LET l == SelectSeq(log, LAMBDA e : e.stage = stage)
    IN  [i \in 1..Len(l) |-> l[i].cmd]

NotRetried(i) == \A j \in 1..Len(log) : j # i => log[j].cmd # log[i].cmd

\* C1 (as stated): an invocation that returns a non-zero status is the last
\* invocation of the run, is not repeated, and the gerber zip does not exist.
C1_Original ==
    \A i \in 1..Len(log) :
        Failed(i) => /\ i = Len(log)
                     /\ NotRetried(i)
                     /\ zip_path = NoZip

\* C1 (amended): an invocation that returns a non-zero status ends the run:
\* it is the last invocation, it is not repeated, and the gerber zip does
\* not exist unless the failed invocation is the kikit call, which runs
\* after the zip step of export_fab.
C1_HaltOnFailure ==
    \A i \in 1..Len(log) :
        Failed(i) => /\ i = Len(log)
                     /\ pc = "done"
                     /\ NotRetried(i)
                     /\ log[i].cmd # "kikit" => zip_path = NoZip
                     /\ (log[i].cmd = "kikit" /\ args.zip) => zip_path # NoZip

C1_Witness ==
    /\ pc = "done"
    /\ args.zip
    /\ Len(log) > 1
    /\ Failed(Len(log))
    /\ log[Len(log)].stage = "export_docs"

\* C2: what the claim calls success
ListedStepsSucceeded ==
    /\ kicad # ""
    /\ proj.ok
    /\ \A i \in 1..Len(log) : log[i].rc = 0
    /\ args.zip => zip_path # NoZip
    /\ Truthy(args.kikit) =>
          \E i \in 1..Len(log) : log[i].cmd = "kikit" /\ log[i].rc = 0

DirsCreated ==
    /\ prod_root # NoDir
    /\ {StdDir("3D_MODEL"), StdDir("PICTURES"), StdDir("DOCUMENTATION"),
        prod_root, SubDir(prod_root, "gerbers"), SubDir(prod_root, "drill")}
          \subseteq fs

\* C2 (as stated): a finished run has exit code 0 or 1, and 0 exactly when
\* tool location, project resolution, every invocation made, the requested
\* zip and the requested vendor packaging succeeded.
C2_Original ==
    pc = "done" => /\ exitCode \in {0, 1}
                   /\ exitCode = 0 <=> ListedStepsSucceeded

\* C2 (amended): a run whose command line parse_args accepts ends with exit
\* code 0 or 1, and 0 exactly when tool location, project resolution, the
\* creation of the output directories, every invocation made, the requested
\* zip and the requested vendor packaging succeeded; a usage error ends the
\* run with exit code 2 and --help with exit code 0, both from parse_args.
C2_ExitCodes ==
    pc = "done" =>
        /\ args.argv = "usage" => exitCode = 2
        /\ args.argv = "help" => exitCode = 0
        /\ args.argv = "ok" =>
              /\ exitCode \in {0, 1}
              /\ exitCode = 0 <=> (ListedStepsSucceeded /\ DirsCreated)

C2_Witness ==
    /\ pc = "done"
    /\ args.argv = "ok"
    /\ error.kind = "Command failed"
    /\ error.code = 3
    /\ exitCode = 1

\* the paths project_paths derives from --project
SchOf(project) == WithSuffix(ProjectStem(project), "kicad_sch")

PcbOf(project) == WithSuffix(ProjectStem(project), "kicad_pcb")

ResolverRan == proj # NoProj

\* C3: when the schematic or the board file is missing, no invocation is
\* ever made, the run ends with exit code 1, and project_paths raises the
\* error that names the missing path, the schematic before the board.
C3_MissingInput ==
    (args.argv = "ok" /\ ~({SchOf(args.project), PcbOf(args.project)}
                              \subseteq env.files)) =>
        /\ log = <<>>
        /\ pc = "done" => exitCode = 1
        /\ ResolverRan =>
              /\ pc = "done"
              /\ error = IF SchOf(args.project) \notin env.files
                         THEN Err("Schematic not found", SchOf(args.project), NoCode)
                         ELSE Err("Board not found", PcbOf(args.project), NoCode)

C3_Witness ==
    /\ pc = "done"
    /\ ResolverRan
    /\ env.files = {}
    /\ error.kind = "Schematic not found"
    /\ exitCode = 1

C5_Original ==
    proj.ok =>
        /\ proj.stem = Stem(args.project)
        /\ proj.stem = Stem(proj.sch)
        /\ proj.stem = Stem(proj.pcb)
        /\ prod_root # NoDir => prod_root.proj = proj.stem
        /\ zip_path # NoZip => zip_path.base = proj.stem
        /\ \A i \in 1..Len(log) : log[i].base \in {NoName, proj.stem}
\* ------------------------------------------------- runs, one after another
Minute(t) == t \div TicksPerMinute

Runs == Append(history, RunRecord)

ZipFileName(z) == [base |-> z.base, ts |-> z.ts]

\* C6 (as stated): of two runs with --zip, the second started in a later
\* clock minute than the first, the production folders differ and the zip
\* file names differ.
C6_Original ==
    \A i, j \in 1..Len(Runs) :
        (/\ i < j
         /\ Runs[i].zip_path # NoZip
         /\ Runs[j].zip_path # NoZip
         /\ Minute(Runs[j].start) > Minute(Runs[i].start)) =>
            /\ Runs[i].prod_root # Runs[j].prod_root
            /\ ZipFileName(Runs[i].zip_path) # ZipFileName(Runs[j].zip_path)

\* C6 (amended): of two runs that read the clock for the name of the
\* production folder in different minutes, the production folders differ,
\* and the gerber zips, when both were written, are different files (their
\* names alone may be equal).
C6_DistinctFolders ==
    \A i, j \in 1..Len(Runs) :
        (/\ i < j
         /\ Runs[i].prod_root # NoDir
         /\ Runs[j].prod_root # NoDir
         /\ Minute(Runs[i].folderClock) # Minute(Runs[j].folderClock)) =>
            /\ Runs[i].prod_root # Runs[j].prod_root
            /\ (Runs[i].zip_path # NoZip /\ Runs[j].zip_path # NoZip) =>
                  Runs[i].zip_path # Runs[j].zip_path

C6_Witness ==
    /\ Len(history) = 1
    /\ pc = "done"
    /\ history[1].zip_path # NoZip
    /\ zip_path # NoZip
    /\ Minute(history[1].folderClock) < Minute(folderClock)
    /\ ZipFileName(history[1].zip_path) = ZipFileName(zip_path)

\* C7: once export_docs has returned, its invocations are the schematic
\* PDF, the ERC report and the board prints, in that order, followed by the
\* DRC report exactly when --skip-drc was not given.
C7_Drc ==
    (\E k \in 1..Len(completed) : completed[k] = "export_docs") =>
        CmdsOf("export_docs")
            = IF args.skip_drc
              THEN <<"schematic_pdf", "erc", "board_prints">>
              ELSE <<"schematic_pdf", "erc", "board_prints", "drc">>

C7_Witness ==
    /\ \E k \in 1..Len(completed) : completed[k] = "export_docs"
    /\ args.skip_drc
    /\ Len(CmdsOf("export_docs")) = 3
    /\ pc = "export_fab"

\* C8: in a run that ends with every invocation successful, export_pictures
\* made 3 invocations without --iso and 4 with it, export_3d made 1 without
\* --glb and 2 with it.
C8_Counts ==
    (pc = "done" /\ args.argv = "ok" /\ exitCode = 0) =>
        /\ Len(CmdsOf("export_pictures")) = IF args.iso THEN 4 ELSE 3
        /\ Len(CmdsOf("export_3d")) = IF args.glb THEN 2 ELSE 1
        /\ CmdsOf("export_3d")[1] = "step"
        /\ SubSeq(CmdsOf("export_pictures"), 1, 3) = <<"top", "bottom", "side">>

C8_Witness ==
    /\ pc = "done"
    /\ exitCode = 0
    /\ ~args.iso
    /\ args.glb
    /\ Len(CmdsOf("export_pictures")) = 3
    /\ Len(CmdsOf("export_3d")) = 2

TopDirsExist ==
    /\ {StdDir("3D_MODEL"), StdDir("PICTURES"), StdDir("DOCUMENTATION")}
          \subseteq fs
    /\ \E d \in fs : d.top = "PRODUCTION"

\* C9 (as stated): the four output directories exist by the time
\* project_paths is called, so also after a run that failed in it.
C9_Original == ResolverRan => TopDirsExist

\* C9 (amended): the four output directories are created after project_paths
\* has returned successfully; a run that fails in project_paths, or before
\* it, has created no directory.
C9_DirsAfterResolve ==
    /\ fs # {} => proj.ok
    /\ (pc = "done" /\ ~proj.ok) => fs = {}
    /\ (\E k \in 1..Len(completed) : completed[k] = "ensure_dirs") =>
          TopDirsExist

C9_Witness ==
    /\ pc = "done"
    /\ ResolverRan
    /\ ~proj.ok
    /\ exitCode = 1
    /\ fs = {}

StageRank(s) ==
    CASE s = "export_3d" -> 1
      [] s = "export_pictures" -> 2
      [] s = "export_docs" -> 3
      [] s = "export_fab" -> 4
      [] s = "run_kikit_fab" -> 5

Returned(s) == \E k \in 1..Len(completed) : completed[k] = s

\* C10: the invocations are made stage after stage in the order 3D,
\* pictures, documentation, fabrication, vendor; none is made twice; every
\* invocation before the last one made returned 0 and every earlier stage
\* has returned; the zip follows the four fabrication invocations; kikit is
\* looked up only for a given vendor and after export_fab returned, and a
\* missing kikit ends the run with exit code 1 and no kikit invocation.
C10_Order ==
    /\ \A i, j \in 1..Len(log) :
          i < j => /\ StageRank(log[i].stage) <= StageRank(log[j].stage)
                   /\ log[i].cmd # log[j].cmd
                   /\ log[i].rc = 0
    /\ \A j \in 1..Len(log) :
          \A s \in {"export_3d", "export_pictures", "export_docs", "export_fab"} :
              StageRank(s) < StageRank(log[j].stage) => Returned(s)
    /\ zip_path # NoZip =>
          /\ CmdsOf("export_fab") = <<"gerbers", "drill", "pos", "bom">>
          /\ \A i \in 1..Len(log) : log[i].stage = "export_fab" => log[i].rc = 0
    /\ kikitProbed => (Truthy(args.kikit) /\ Returned("export_fab"))
    /\ (\E i \in 1..Len(log) : log[i].cmd = "kikit") => kikitProbed
    /\ (kikitProbed /\ ~env.kikitOnPath) =>
          /\ pc = "done"
          /\ exitCode = 1
          /\ \A i \in 1..Len(log) : log[i].cmd # "kikit"

C10_Witness ==
    /\ pc = "done"
    /\ exitCode = 0
    /\ args.zip
    /\ zip_path # NoZip
    /\ args.glb
    /\ log[Len(log)].cmd = "kikit"
====
